---- MODULE Spec2Model ----
(***************************************************************************)
(* Autopostulador: the application pipeline (backend/services/             *)
(* application_service.py, driven by backend/server.py) and the scrape     *)
(* scheduler with its per-portal daily quota (backend/services/            *)
(* scraper_service.py).                                                    *)
(*                                                                         *)
(* Modelling conventions                                                   *)
(*  - The document store answers every call (find_one, insert_one,         *)
(*    update_one); each call is one atomic step, and the synchronous code  *)
(*    between two awaits belongs to the step that precedes it.             *)
(*  - Timestamps are abstracted: applied_at is None or Stamped.            *)
(*  - Texts are abstracted to the literal that produces them.              *)
(***************************************************************************)
EXTENDS Integers, Sequences, FiniteSets, TLC

\* ------------------------------------------------------------------ bounds
\* Applications created in one behaviour.
MaxApps == 2
\* The calendar days after the day the ScraperService was constructed.
MaxDay == 1
\* Scheduling passes (search_jobs calls) in flight at once.
NumPasses == 2
\* The longest filters.portals list.
MaxPortals == 2
\* The most search_and_apply tasks added.
MaxSearches == 2
\* The longest text, the longest keyword and the longest keyword list given to
\* the keyword matcher.
MaxTextLen == 3
MaxKeywordLen == 2
MaxKeywords == 2
\* The longest CV text, posting description, requirement and requirement
\* list given to the compatibility fallback character by character.
MaxRawText == 3
MaxDescription == 2
MaxRequirementLen == 1
MaxRequirements == 1
\* The longest list of form questions.
MaxQuestions == 2
MaxResponseLines == 2
\* The handler executions of one endpoint that may overlap.
NumCalls == 2
\* The listings on a portal's page: fewer than every daily limit, or more than
\* every daily limit (or none at all).
PartialPage == 10
FullPage == 30

\* ------------------------------------------------------------ enumerations
\* models.JobPortal
LINKEDIN == "linkedin"
LABORUM == "laborum"
BNE == "bne"
TRABAJANDO == "trabajando"
JobPortal == {LINKEDIN, LABORUM, BNE, TRABAJANDO}

\* models.ApplicationStatus
PENDING == "pending"
APPLIED == "applied"
VIEWED == "viewed"
REJECTED == "rejected"
INTERVIEW == "interview"
OFFER == "offer"
ApplicationStatus == {PENDING, APPLIED, VIEWED, REJECTED, INTERVIEW, OFFER}

\* Python's None, and find_one's answer when no document matches.
None == "None"
NoDoc == [found |-> FALSE]
\* A stored posting document whose portal is no member of JobPortal:
\* JobPosting(**job_doc) raises a validation error on it.
UnknownPortal == "unknown"
\* applied_at once datetime.utcnow() has been written to it.
Stamped == "stamped"
\* JobApplication.portal_data's default, {}.
EmptyBag == "{}"

Users == {"u1", "u2"}
JobIds == {"j1"}
CvIds == {"c1", "c2", "c3"}
FilterIds == {"f1", "f2"}
ConfigIds == {"a1", "a2", "a3"}
\* AIConfigCreate.gemini_api_key: absent, or one of two keys
ApiKeys == {None, "key1", "key2"}
\* HTTP status codes of the responses
Ok == "200"
BadRequest == "400"
NotFound == "404"

\* ------------------------------------------------------------------- state
VARIABLES
    jobs,           \* db.jobs: job id -> [portal], or NoDoc
    cvs,            \* db.cvs: cv id -> [user_id, is_default], or NoDoc
    applications,   \* db.applications: the inserted documents, in insertion order
    run,            \* one process_application task per application: its locals
    prov,           \* per run: what the provider does when asked for the letter (None before)
    letter_requests,\* per run: calls of generate_cover_letter
    submit_calls    \* per run: calls of a portal submission routine

VARIABLES
    today,          \* datetime.utcnow().date(), in days since construction
    last_reset,     \* ScraperService.last_reset
    current_counts, \* ScraperService.current_counts: portal -> postings counted
    filters,        \* the stored SearchFilters.portals the passes are run with
    pass,           \* the search_jobs calls in flight: slot -> its locals
    overfetched     \* some fetch returned more than the quota left at its check

VARIABLES
    reply,          \* the status code of the last HTTP response (None before)
    cv_calls,       \* the create_cv calls in flight: slot -> its locals
    search_filters, \* db.search_filters: filter id -> [user_id, is_active], or NoDoc
    search_tasks,   \* the search_and_apply background tasks, in the order added
    ai_config,      \* db.ai_config: the stored documents
    cfg_calls,      \* the create_ai_config calls in flight: slot -> its locals
    active_chats,   \* ai_service.active_chats: the users with a chat
    call            \* a call of one of the services' functions: its arguments and,
                    \* once it has returned, its result

pvars == <<jobs, cvs, applications, run, prov, letter_requests, submit_calls>>
qvars == <<today, last_reset, current_counts, filters, pass, overfetched>>
svars == <<cv_calls, search_filters, search_tasks, ai_config, cfg_calls, active_chats,
           call>>
vars == <<pvars, qvars, svars, reply>>

AppIds == 1..Len(applications)

\* ------------------------------------------------------------------- text
\* A str is the sequence of its characters. str.lower() maps each cased
\* character to its lowercase one and leaves the others.
LowerOf == [A |-> "a", B |-> "b", E |-> "e", S |-> "s"]
LowerChar(c) == IF c \in DOMAIN LowerOf THEN LowerOf[c] ELSE c
Lower(text) == [i \in 1..Len(text) |-> LowerChar(text[i])]

\* `a in b` for two str
IsIn(a, b) ==
    \E i \in 0..(Len(b) - Len(a)) : SubSeq(b, i + 1, i + Len(a)) = a

\* str.split(): the maximal runs of characters that are not whitespace, in
\* order; `word` is the run being read.
Space == " "
RECURSIVE SplitFrom(_, _, _, _)
SplitFrom(text, i, word, words) ==
    IF i > Len(text)
    THEN IF word = <<>> THEN words ELSE Append(words, word)
    ELSE IF text[i] = Space
    THEN SplitFrom(text, i + 1, <<>>,
                   IF word = <<>> THEN words ELSE Append(words, word))
    ELSE SplitFrom(text, i + 1, Append(word, text[i]), words)
Split(text) == SplitFrom(text, 1, <<>>, <<>>)

\* sep.join(parts)
RECURSIVE Join(_, _)
Join(sep, parts) ==
    IF parts = <<>> THEN <<>>
    ELSE IF Len(parts) = 1 THEN parts[1]
    ELSE parts[1] \o sep \o Join(sep, Tail(parts))

\* set(a_list)
ToSet(list) == {list[i] : i \in 1..Len(list)}

\* The call variable of the specifications that call no function.
NotCalled == [op |-> "none", returned |-> FALSE]

\* min(a, b)
Min(a, b) == IF a < b THEN a ELSE b

\* -------------------------------------------------------------- AI service
\* AIService.generate_cover_letter's three returns.
LetterNoConfig == "Estimados Sres. de {company}, adjunto mi CV"
LetterFromAI == "response"
LetterOnError == "Estimados Sres. de {company}, Tengo gran interes"
\* What chat.send_message does when awaited.
ProviderOutcomes == {"ok", "error"}
\* The marker of an exception leaving a call.
Raised == "raised"

\* The provider's error escapes: no per-user guard, no try/except.
GenerateCoverLetterUnwrapped(chats, user_id, outcome) ==
    IF outcome = "error" THEN Raised ELSE LetterFromAI

GenerateCoverLetter(chats, user_id, outcome) ==
    IF user_id \notin chats
    THEN LetterNoConfig
    ELSE IF outcome = "ok" THEN LetterFromAI ELSE LetterOnError

\* _basic_compatibility_analysis: `"Tal vez" if compatibility > 30 else "No"`
TalVez == "Tal vez"
No == "No"
RecommendationFromThirty(compatibility) ==
    IF compatibility >= 30 THEN TalVez ELSE No

Recommendation(compatibility) ==
    IF compatibility > 30 THEN TalVez ELSE No

\* _basic_compatibility_analysis(cv_data, job_posting): the percentage and
\* the recommendation of the returned dict (its strengths and weaknesses are
\* fixed lists, its matched_keywords five of the common words).
BasicCompatibilityAnalysis(cv_data, job_posting) ==
    LET cv_text == Lower(cv_data.raw_text)
        job_text == Lower(job_posting.description \o <<Space>>
                          \o Join(<<Space>>, job_posting.requirements))
        common_words == ToSet(Split(cv_text)) \cap ToSet(Split(job_text))
        compatibility == Min(Cardinality(common_words) * 10, 100)
    IN  [compatibility_percentage |-> compatibility,
         recommendation |-> Recommendation(compatibility)]

\* A call of _basic_compatibility_analysis returns.
BasicCompatibilityAnalysisReturn ==
    /\ call.op = "_basic_compatibility_analysis"
    /\ ~call.returned
    /\ call' = [call EXCEPT !.returned = TRUE,
            !.result = BasicCompatibilityAnalysis(call.cv_data, call.job_posting)]
    /\ UNCHANGED <<pvars, qvars, reply, cv_calls, search_filters, search_tasks,
                   ai_config, cfg_calls, active_chats>>

\* What a provider operation hands its caller: a value, or an exception.
Returns(value) == [raised |-> FALSE, value |-> value]
Raises == [raised |-> TRUE, value |-> <<>>]

\* The provider's text for a personalized CV.
PersonalizedByAI == <<"r">>

\* personalize_cv with the provider's error escaping.
PersonalizeCvUnwrapped(chats, user_id, outcome, cv_data) ==
    IF outcome = "error" THEN Raises ELSE Returns(PersonalizedByAI)

\* personalize_cv(user_id, cv_data, job_posting)
PersonalizeCv(chats, user_id, outcome, cv_data) ==
    IF user_id \notin chats
    THEN Returns(cv_data.raw_text)
    ELSE IF outcome = "ok"
    THEN Returns(PersonalizedByAI)
    ELSE Returns(cv_data.raw_text)

\* generate_form_responses(user_id, cv_data, form_questions): with the
\* provider's text each question gets the line found for it or
\* "Ver información en CV adjunto"; AnswerFromAI stands for either.
FixedAnswer == "Información disponible en CV adjunto"
AnswerFromAI == "answer"
GenerateFormResponses(chats, user_id, outcome, form_questions) ==
    IF user_id \notin chats
    THEN Returns([q \in ToSet(form_questions) |-> FixedAnswer])
    ELSE IF outcome = "ok"
    THEN Returns([q \in ToSet(form_questions) |-> AnswerFromAI])
    ELSE Returns([q \in ToSet(form_questions) |-> FixedAnswer])

\* The dict _parse_analysis_response returns from its except clause, which
\* holds the same values as its setdefault calls.
ParsedAnalysis == [compatibility_percentage |-> 50, recommendation |-> TalVez]

\* The provider's answer as _parse_analysis_response reads it: its lines, each
\* with the label before the first colon and the text between the first and
\* the second, stripped and, for the percentage, without its `%`.
\* int() converts the numerals and raises ValueError on any other text.
IntOf == [token \in {"80", "20"} |-> IF token = "80" THEN 80 ELSE 20]
ResponseLines ==
    [label : {"COMPATIBILIDAD"}, value : {"80", "alta"}]
        \cup [label : {"RECOMENDACION"}, value : {"Si"}]
        \cup [label : {"FORTALEZAS"}, value : {"Perfil"}]

\* `result.setdefault(key, value)`
SetDefault(result, key, value) ==
    IF key \in DOMAIN result THEN result ELSE result @@ (key :> value)

\* The loop over the lines from line i on, `result` being the dict so far.
RECURSIVE ParseFrom(_, _, _)
ParseFrom(lines, i, result) ==
    IF i > Len(lines)
    THEN Returns(result)
    ELSE LET line == lines[i] IN
         IF line.label = "COMPATIBILIDAD"
         THEN IF line.value \in DOMAIN IntOf
              THEN ParseFrom(lines, i + 1,
                             ("compatibility_percentage" :> IntOf[line.value])
                                @@ result)
              ELSE Raises
         ELSE IF line.label = "RECOMENDACION"
         THEN ParseFrom(lines, i + 1, ("recommendation" :> line.value) @@ result)
         ELSE ParseFrom(lines, i + 1, result)

\* _parse_analysis_response(response): the dict read from the lines, completed
\* with the defaults, or the default dict when reading a line raised.
ParseAnalysisResponse(response) ==
    LET read == ParseFrom(response, 1, <<>>) IN
    IF read.raised
    THEN ParsedAnalysis
    ELSE SetDefault(SetDefault(read.value, "compatibility_percentage", 50),
                    "recommendation", TalVez)

\* analyze_job_compatibility(user_id, cv_data, job_posting): with the
\* provider's answer `response`, what _parse_analysis_response makes of it.
AnalyzeJobCompatibility(chats, user_id, outcome, response, cv_data, job_posting) ==
    IF user_id \notin chats
    THEN Returns(BasicCompatibilityAnalysis(cv_data, job_posting))
    ELSE IF outcome = "ok"
    THEN Returns(ParseAnalysisResponse(response))
    ELSE Returns(BasicCompatibilityAnalysis(cv_data, job_posting))

\* The four operations on ai_service, by name.
ProviderOps == {"personalize_cv", "generate_cover_letter",
                "generate_form_responses", "analyze_job_compatibility"}

\* A call of one of them returns or raises.
ProviderOpReturn ==
    /\ call.op \in ProviderOps
    /\ ~call.returned
    /\ call' = [call EXCEPT !.returned = TRUE, !.result =
            CASE call.op = "personalize_cv" ->
                    PersonalizeCv(active_chats, call.user_id, call.outcome, call.cv_data)
              [] call.op = "generate_cover_letter" ->
                    LET letter == GenerateCoverLetter(active_chats, call.user_id,
                                                      call.outcome)
                    IN  [raised |-> letter = Raised, value |-> letter]
              [] call.op = "generate_form_responses" ->
                    GenerateFormResponses(active_chats, call.user_id, call.outcome,
                                          call.form_questions)
              [] call.op = "analyze_job_compatibility" ->
                    AnalyzeJobCompatibility(active_chats, call.user_id, call.outcome,
                                            call.response, call.cv_data,
                                            call.job_posting)]
    /\ UNCHANGED <<pvars, qvars, reply, cv_calls, search_filters, search_tasks,
                   ai_config, cfg_calls, active_chats>>

\* ApplicationService.__init__ builds its own AIService(): user_configs and
\* active_chats start empty and nothing in the repository calls update_config
\* on that instance (server.py's create_ai_config updates server.ai_service).
PipelineActiveChats == {}

\* ------------------------------------------------------ application service
\* _update_application_status's $set document.
UpdateDataAlwaysStamps(status, notes) ==
    [status |-> status, notes |-> notes, applied_at |-> Stamped]

UpdateDataDropsNotes(status, notes) ==
    IF status = APPLIED
    THEN [status |-> status, notes |-> "", applied_at |-> Stamped]
    ELSE [status |-> status, notes |-> ""]

UpdateDataNeverStamps(status, notes) == [status |-> status, notes |-> notes]

UpdateData(status, notes) ==
    IF status = APPLIED
    THEN [status |-> status, notes |-> notes, applied_at |-> Stamped]
    ELSE [status |-> status, notes |-> notes]

\* update_one({"id": application_id}, {"$set": update_data}) on a collection.
SetFields(doc, update_data) ==
    [f \in DOMAIN doc |->
        IF f \in DOMAIN update_data THEN update_data[f] ELSE doc[f]]

\* The update with a filter on the application's user and posting instead of
\* its id.
UpdateApplicationStatusOfPair(apps, application_id, status, notes) ==
    [i \in DOMAIN apps |->
        IF /\ apps[i].user_id = apps[application_id].user_id
           /\ apps[i].job_id = apps[application_id].job_id
        THEN SetFields(apps[i], UpdateData(status, notes))
        ELSE apps[i]]

UpdateApplicationStatus(apps, application_id, status, notes) ==
    [i \in DOMAIN apps |->
        IF i = application_id
        THEN SetFields(apps[i], UpdateData(status, notes))
        ELSE apps[i]]

\* models.JobApplication as apply_to_job builds it.
JobApplication(user_id, job_id, cv_id) ==
    [user_id |-> user_id, job_id |-> job_id, cv_used |-> cv_id,
     cover_letter |-> None, portal_data |-> EmptyBag, status |-> PENDING,
     applied_at |-> None, notes |-> None]

\* The locals of one process_application task.
NewRun ==
    [pc |-> "queued", job_doc |-> NoDoc, cv_doc |-> NoDoc,
     cover_letter |-> None, portal_data |-> EmptyBag, success |-> FALSE,
     error |-> None, upd_status |-> None, upd_notes |-> None]

\* `if not job_doc or not cv_doc`
DataMissing(job_doc, cv_doc) == job_doc = NoDoc \/ cv_doc = NoDoc

\* JobPosting(**job_doc) validates: portal is coerced to the JobPortal enum.
ValidJobPosting(job_doc) == job_doc.portal \in JobPortal

\* The method each _apply_<portal> records in application.portal_data.
PortalMethod(portal) ==
    CASE portal = LINKEDIN -> "linkedin_easy_apply"
      [] portal = LABORUM -> "laborum_form"
      [] portal = BNE -> "bne_portal"
      [] portal = TRABAJANDO -> "trabajando_form"

\* `except Exception as e:` of process_application: the run goes on to
\* _update_application_status(application_id, REJECTED, str(e)).
OnExceptionUncaught(r, e) == [r EXCEPT !.pc = "crashed", !.error = e]

OnException(r, e) ==
    [r EXCEPT !.pc = "update", !.error = e,
              !.upd_status = REJECTED, !.upd_notes = e]

\* `if success: ... APPLIED ... else: ... REJECTED ...`
OutcomeStatusViewed(success) == IF success THEN VIEWED ELSE REJECTED

OutcomeStatus(success) == IF success THEN APPLIED ELSE REJECTED

OutcomeNotes(success) ==
    IF success THEN "Postulacion enviada a {company}" ELSE "Error en el envio"

\* ----------------------------------------------------------------- server
\* A lookup that takes any CV of the user.
DefaultCvsAnyOfUser(user_id) ==
    {c \in CvIds : cvs[c] # NoDoc /\ cvs[c].user_id = user_id}

\* db.cvs.find_one({"user_id": user_id, "is_default": True}): any match.
DefaultCvs(user_id) ==
    {c \in CvIds : cvs[c] # NoDoc /\ cvs[c].user_id = user_id /\ cvs[c].is_default}

\* apply_to_job(user_id, job_id, cv_id): 404 when the job is not stored, 400
\* when no cv is given and the user has no default CV; otherwise the
\* application is inserted and its pipeline run is added to the background tasks.
ApplyToJob(user_id, job_id, cv_id) ==
    /\ IF jobs[job_id] = NoDoc
       THEN /\ reply' = NotFound
            /\ UNCHANGED <<applications, run, prov, letter_requests, submit_calls>>
       ELSE IF cv_id = None /\ DefaultCvs(user_id) = {}
       THEN /\ reply' = BadRequest
            /\ UNCHANGED <<applications, run, prov, letter_requests, submit_calls>>
       ELSE /\ Len(applications) < MaxApps
            /\ \E chosen \in (IF cv_id = None THEN DefaultCvs(user_id) ELSE {cv_id}) :
                /\ applications' =
                        Append(applications, JobApplication(user_id, job_id, chosen))
                /\ run' = Append(run, NewRun)
            /\ prov' = Append(prov, None)
            /\ letter_requests' = Append(letter_requests, 0)
            /\ submit_calls' = Append(submit_calls, 0)
            /\ reply' = Ok
    /\ UNCHANGED <<jobs, cvs, qvars, svars>>

\* The executions of one handler that may be in flight together, and the
\* locals of a slot with none.
CallSlots == 1..NumCalls
NoCall == [pc |-> "idle"]

\* What a CV handler leaves alone.
CvUnchanged ==
    UNCHANGED <<jobs, applications, run, prov, letter_requests, submit_calls,
                qvars, search_filters, search_tasks, ai_config, cfg_calls,
                active_chats, call>>

\* The ids uuid4 may give a new CV: not stored and not held by a create_cv
\* call that has still to insert.
FreshCvIds ==
    {c \in CvIds : /\ cvs[c] = NoDoc
                   /\ \A k \in DOMAIN cv_calls :
                        cv_calls[k].pc = "insert" => cv_calls[k].cv_id # c}

\* update_many({"user_id": user_id}, {"$set": {"is_default": False}})
UnsetDefaults(store, user_id) ==
    [c \in DOMAIN store |->
        IF store[c] # NoDoc /\ store[c].user_id = user_id
        THEN [store[c] EXCEPT !.is_default = FALSE]
        ELSE store[c]]

\* insert_one(cv.dict())
InsertCv(store, cv_id, user_id, is_default) ==
    [store EXCEPT ![cv_id] = [user_id |-> user_id, is_default |-> is_default]]

\* create_cv(user_id, cv_data) up to its first store call's answer: with
\* is_default the other CVs of the user are unset and the insert is still to
\* come; without it the CV is inserted and returned.
CreateCv(k, cv_id, user_id, is_default) ==
    /\ cv_calls[k].pc = "idle"
    /\ cv_id \in FreshCvIds
    /\ IF is_default
       THEN /\ cvs' = UnsetDefaults(cvs, user_id)
            /\ cv_calls' = [cv_calls EXCEPT ![k] =
                    [pc |-> "insert", cv_id |-> cv_id, user_id |-> user_id]]
            /\ UNCHANGED reply
       ELSE /\ cvs' = InsertCv(cvs, cv_id, user_id, FALSE)
            /\ reply' = Ok
            /\ UNCHANGED cv_calls
    /\ CvUnchanged

\* create_cv with is_default: `await db.cvs.insert_one(cv.dict())`; return cv
CreateCvInsert(k) ==
    /\ cv_calls[k].pc = "insert"
    /\ cvs' = InsertCv(cvs, cv_calls[k].cv_id, cv_calls[k].user_id, TRUE)
    /\ cv_calls' = [cv_calls EXCEPT ![k] = NoCall]
    /\ reply' = Ok
    /\ CvUnchanged

\* update_cv(cv_id, cv_data): update_one $set of the supplied fields,
\* is_default among them; 404 when no document matched, else the document is
\* read back and returned.
UpdateCv(cv_id, is_default) ==
    /\ IF cvs[cv_id] = NoDoc
       THEN reply' = NotFound /\ UNCHANGED cvs
       ELSE /\ cvs' = [cvs EXCEPT ![cv_id].is_default = is_default]
            /\ reply' = Ok
    /\ UNCHANGED cv_calls
    /\ CvUnchanged

\* delete_cv(cv_id)
DeleteCv(cv_id) ==
    /\ cvs[cv_id] # NoDoc
    /\ cvs' = [cvs EXCEPT ![cv_id] = NoDoc]
    /\ UNCHANGED <<jobs, applications, run, prov, letter_requests, submit_calls, qvars, svars, reply>>

\* What a search handler leaves alone.
SearchUnchanged ==
    UNCHANGED <<pvars, qvars, cv_calls, ai_config, cfg_calls, active_chats, call>>

\* create_search_filters(user_id, filters_data): SearchFilters.is_active
\* defaults to True and SearchFiltersCreate has no such field.
CreateSearchFilters(filter_id, user_id) ==
    /\ search_filters[filter_id] = NoDoc
    /\ search_filters' = [search_filters EXCEPT ![filter_id] =
            [user_id |-> user_id, is_active |-> TRUE]]
    /\ reply' = Ok
    /\ UNCHANGED search_tasks
    /\ SearchUnchanged

\* update_search_filters(filter_id, filters_data): $set of the
\* SearchFiltersCreate fields, which leaves user_id and is_active as stored.
UpdateSearchFilters(filter_id) ==
    /\ reply' = (IF search_filters[filter_id] = NoDoc THEN NotFound ELSE Ok)
    /\ UNCHANGED <<search_filters, search_tasks>>
    /\ SearchUnchanged

\* find_one({"user_id": user_id}): a lookup that leaves out is_active.
ActiveFiltersIgnoringFlag(user_id) ==
    {f \in FilterIds : /\ search_filters[f] # NoDoc
                       /\ search_filters[f].user_id = user_id}

\* find_one({"user_id": user_id, "is_active": True}): any match.
ActiveFilters(user_id) ==
    {f \in FilterIds : /\ search_filters[f] # NoDoc
                       /\ search_filters[f].user_id = user_id
                       /\ search_filters[f].is_active}

\* start_automatic_search(user_id): 400 without an active filter, else
\* search_and_apply(user_id) is added to the background tasks.
StartSearch(user_id) ==
    /\ IF ActiveFilters(user_id) = {}
       THEN reply' = BadRequest /\ UNCHANGED search_tasks
       ELSE /\ Len(search_tasks) < MaxSearches
            /\ search_tasks' =
                    Append(search_tasks, [user_id |-> user_id, pc |-> "queued"])
            /\ reply' = Ok
    /\ UNCHANGED search_filters
    /\ SearchUnchanged

\* stop_automatic_search(user_id): update_many sets is_active False on the
\* filters of the user.
StopSearch(user_id) ==
    /\ search_filters' = [f \in FilterIds |->
            IF search_filters[f] # NoDoc /\ search_filters[f].user_id = user_id
            THEN [search_filters[f] EXCEPT !.is_active = FALSE]
            ELSE search_filters[f]]
    /\ reply' = Ok
    /\ UNCHANGED search_tasks
    /\ SearchUnchanged

\* search_and_apply(user_id): the task runs; it logs its start and its end and
\* has no suspension point.
SearchAndApply(i) ==
    /\ i \in 1..Len(search_tasks)
    /\ search_tasks[i].pc = "queued"
    /\ search_tasks' = [search_tasks EXCEPT ![i].pc = "done"]
    /\ UNCHANGED <<search_filters, reply>>
    /\ SearchUnchanged

\* The ids uuid4 may give a new AIConfig.
FreshConfigIds ==
    {a \in ConfigIds : /\ \A d \in ai_config : d.id # a
                       /\ \A k \in DOMAIN cfg_calls :
                            cfg_calls[k].pc = "insert" => cfg_calls[k].config.id # a}

\* create_ai_config(user_id, config_data) up to the answer of
\* delete_many({"user_id": user_id}).
CreateAiConfig(k, config_id, user_id, gemini_api_key) ==
    /\ cfg_calls[k].pc = "idle"
    /\ config_id \in FreshConfigIds
    /\ ai_config' = {d \in ai_config : d.user_id # user_id}
    /\ cfg_calls' = [cfg_calls EXCEPT ![k] =
            [pc |-> "insert",
             config |-> [id |-> config_id, user_id |-> user_id,
                         gemini_api_key |-> gemini_api_key]]]
    /\ UNCHANGED <<pvars, qvars, cv_calls, search_filters, search_tasks,
                   active_chats, reply, call>>

\* create_ai_config: insert_one(config.dict()), then with a key
\* ai_service.update_config, which stores a chat for the user unless building
\* it raises (user_configs, which it also writes, is read by nothing).
CreateAiConfigInsert(k, chat_built) ==
    /\ cfg_calls[k].pc = "insert"
    /\ LET config == cfg_calls[k].config IN
        /\ ai_config' = ai_config \cup {config}
        /\ active_chats' =
                IF config.gemini_api_key # None /\ chat_built
                THEN active_chats \cup {config.user_id}
                ELSE active_chats
    /\ cfg_calls' = [cfg_calls EXCEPT ![k] = NoCall]
    /\ reply' = Ok
    /\ UNCHANGED <<pvars, qvars, cv_calls, search_filters, search_tasks, call>>

\* db.jobs is written by no code of the repository: postings are put there and
\* taken away by whoever maintains the collection.
StoreJob(job_id, job_doc) ==
    /\ jobs[job_id] = NoDoc
    /\ jobs' = [jobs EXCEPT ![job_id] = job_doc]
    /\ UNCHANGED <<cvs, applications, run, prov, letter_requests, submit_calls, qvars, svars, reply>>

ExpireJob(job_id) ==
    /\ jobs[job_id] # NoDoc
    /\ jobs' = [jobs EXCEPT ![job_id] = NoDoc]
    /\ UNCHANGED <<cvs, applications, run, prov, letter_requests, submit_calls, qvars, svars, reply>>

\* --------------------------------------------------- process_application
\* `app_doc = await self.db.applications.find_one({"id": application_id})`
FindApplication(a) ==
    /\ run[a].pc = "queued"
    /\ run' = [run EXCEPT ![a].pc = "find_job"]
    /\ UNCHANGED <<jobs, cvs, applications, prov, letter_requests, submit_calls, qvars, svars, reply>>

\* `job_doc = await self.db.jobs.find_one({"id": application.job_id})`
FindJob(a) ==
    /\ run[a].pc = "find_job"
    /\ run' = [run EXCEPT ![a].pc = "find_cv",
                          ![a].job_doc = jobs[applications[a].job_id]]
    /\ UNCHANGED <<jobs, cvs, applications, prov, letter_requests, submit_calls, qvars, svars, reply>>

\* `cv_doc = await self.db.cvs.find_one({"id": application.cv_used})` and the
\* code up to the next await: the missing-data test, the two model
\* constructors, the cover letter and the dispatch on the posting's portal.
\* With PipelineActiveChats empty generate_cover_letter returns without
\* awaiting the provider, so the run's next suspension is the submission
\* routine's sleep. `outcome` is what the provider does for this run when
\* generate_cover_letter gets to call it.
AfterLookups(r, app, cv_doc, outcome) ==
    LET r1 == [r EXCEPT !.cv_doc = cv_doc] IN
    IF DataMissing(r1.job_doc, cv_doc)
    THEN [r1 EXCEPT !.pc = "update", !.upd_status = REJECTED,
                    !.upd_notes = "Datos incompletos"]
    ELSE IF ~ValidJobPosting(r1.job_doc)
    THEN OnException(r1, "validation error for JobPosting")
    ELSE LET letter == IF app.cover_letter = None
                       THEN GenerateCoverLetter(PipelineActiveChats, app.user_id, outcome)
                       ELSE app.cover_letter
         IN IF letter = Raised
            THEN OnException(r1, "provider error")
            ELSE [r1 EXCEPT !.pc = "applying", !.cover_letter = letter]

FindCv(a, outcome) ==
    /\ run[a].pc = "find_cv"
    /\ LET app == applications[a]
           cv_doc == cvs[app.cv_used]
           r == AfterLookups(run[a], app, cv_doc, outcome)
       IN /\ run' = [run EXCEPT ![a] = r]
          /\ prov' = [prov EXCEPT ![a] =
                IF ~DataMissing(run[a].job_doc, cv_doc)
                   /\ ValidJobPosting(run[a].job_doc) /\ app.cover_letter = None
                THEN outcome ELSE @]
          /\ letter_requests' =
                [letter_requests EXCEPT ![a] =
                    IF ~DataMissing(run[a].job_doc, cv_doc)
                       /\ ValidJobPosting(run[a].job_doc) /\ app.cover_letter = None
                    THEN @ + 1 ELSE @]
          /\ submit_calls' =
                [submit_calls EXCEPT ![a] = IF r.pc = "applying" THEN @ + 1 ELSE @]
    /\ UNCHANGED <<jobs, cvs, applications, qvars, svars, reply>>

\* process_application with a second attempt: a submission routine that
\* returned False is called once more before the status is chosen.
ApplyReturnRetrying(a, success) ==
    /\ run[a].pc = "applying"
    /\ IF ~success /\ submit_calls[a] < 2
       THEN /\ submit_calls' = [submit_calls EXCEPT ![a] = @ + 1]
            /\ UNCHANGED run
       ELSE /\ run' = [run EXCEPT
                        ![a].pc = "update",
                        ![a].success = success,
                        ![a].portal_data =
                            IF success THEN PortalMethod(run[a].job_doc.portal) ELSE @,
                        ![a].upd_status = OutcomeStatus(success),
                        ![a].upd_notes = OutcomeNotes(success)]
            /\ UNCHANGED submit_calls
    /\ UNCHANGED <<jobs, cvs, applications, prov, letter_requests, qvars, svars, reply>>

\* _apply_linkedin / _apply_laborum / _apply_bne / _apply_trabajando after its
\* `await asyncio.sleep(2)`: True with application.portal_data set on the
\* task's own JobApplication object, or False from its except clause; then
\* the choice of the status to write.
ApplyReturn(a, success) ==
    /\ run[a].pc = "applying"
    /\ run' = [run EXCEPT
                ![a].pc = "update",
                ![a].success = success,
                ![a].portal_data = IF success THEN PortalMethod(run[a].job_doc.portal) ELSE @,
                ![a].upd_status = OutcomeStatus(success),
                ![a].upd_notes = OutcomeNotes(success)]
    /\ UNCHANGED <<jobs, cvs, applications, prov, letter_requests, submit_calls, qvars, svars, reply>>

\* `await self._update_application_status(...)`, after which the task returns.
UpdateStatus(a) ==
    /\ run[a].pc = "update"
    /\ applications' =
            UpdateApplicationStatus(applications, a, run[a].upd_status, run[a].upd_notes)
    /\ run' = [run EXCEPT ![a].pc = "done"]
    /\ UNCHANGED <<jobs, cvs, prov, letter_requests, submit_calls, qvars, svars, reply>>

\* An out-of-band signal marks a stored application as viewed: a write to
\* db.applications made by a writer other than the pipeline (no handler of
\* server.py sets ApplicationStatus.VIEWED).
ExternalAdvance(a) ==
    /\ applications[a].status # VIEWED
    /\ applications' = [applications EXCEPT ![a].status = VIEWED]
    /\ UNCHANGED <<jobs, cvs, run, prov, letter_requests, submit_calls, qvars, svars, reply>>

\* ---------------------------------------------------------- scraper service
\* _find_matching_keywords(text, keywords): the loop over keywords from
\* position i on, with `matched` as collected so far.
RECURSIVE MatchFrom(_, _, _, _)
MatchFrom(text_lower, keywords, i, matched) ==
    IF i > Len(keywords)
    THEN matched
    ELSE MatchFrom(text_lower, keywords, i + 1,
                   IF IsIn(Lower(keywords[i]), text_lower)
                   THEN Append(matched, keywords[i])
                   ELSE matched)

\* The matcher without lowercasing.
FindMatchingKeywordsCased(text, keywords) ==
    SelectSeq(keywords, LAMBDA k : IsIn(k, text))

FindMatchingKeywords(text, keywords) ==
    MatchFrom(Lower(text), keywords, 1, <<>>)

\* A call of _find_matching_keywords returns.
FindMatchingKeywordsReturn ==
    /\ call.op = "_find_matching_keywords"
    /\ ~call.returned
    /\ call' = [call EXCEPT !.returned = TRUE,
                            !.result = FindMatchingKeywords(call.text, call.keywords)]
    /\ UNCHANGED <<pvars, qvars, reply, cv_calls, search_filters, search_tasks,
                   ai_config, cfg_calls, active_chats>>

\* ScraperService.__init__: self.daily_limits
DailyLimits(portal) ==
    CASE portal = LINKEDIN -> 20
      [] portal = LABORUM -> 15
      [] portal = BNE -> 25
      [] portal = TRABAJANDO -> 15

ZeroCounts == [portal \in JobPortal |-> 0]

\* _reset_daily_limits: the tracker <<current_counts, last_reset>> after the call.
ResetDailyLimitsEveryCall(now, counts, reset_day) ==
    IF now >= reset_day THEN <<ZeroCounts, now>> ELSE <<counts, reset_day>>

ResetDailyLimits(now, counts, reset_day) ==
    IF now > reset_day THEN <<ZeroCounts, now>> ELSE <<counts, reset_day>>

\* `if self.current_counts[portal] >= self.daily_limits[portal]: continue`
RefusedAboveOnly(counts, portal) == counts[portal] > DailyLimits(portal)

Refused(counts, portal) == counts[portal] >= DailyLimits(portal)

\* The listings a portal's page shows, and how many postings its scraper
\* returns for them: the listings among `job_cards[:self.daily_limits[portal]]`
\* whose extraction succeeds.
PageSizes == {0, PartialPage, FullPage}
ScrapeSizes(portal) == {Min(cards, DailyLimits(portal)) : cards \in PageSizes}
AllScrapeSizes == UNION {ScrapeSizes(portal) : portal \in JobPortal}

\* A portal's result page as a scraper sees it: `cards` listings, numbered in
\* page order, those in `broken` raising inside the per-card try block (or
\* lacking a title), and what retrieving the page does.
PageOutcomes == {"ok", "not200", "raise"}
BrokenCards == {1, 2, PartialPage, FullPage}

\* `job_cards[:self.daily_limits[portal]]`: the last card the loop visits.
BatchBound(portal, cards) == Min(cards, DailyLimits(portal))

\* The card loop without its inner handler: the first error leaves the loop
\* for the scraper's outer handler.
OnExtractErrorAbandons(i, last) == last + 1

\* `except Exception as e: logger.warning(...); continue` (and
\* `if not title_elem: continue`): the card the loop goes on with after card i.
OnExtractError(i, last) == i + 1

\* The first card from i on, up to `last`, whose extraction succeeds, or a
\* number past `last` when the loop ends without one.
RECURSIVE NextCard(_, _, _)
NextCard(broken, i, last) ==
    IF i > last THEN i
    ELSE IF i \in broken THEN NextCard(broken, OnExtractError(i, last), last)
    ELSE i

\* The whole card loop of _scrape_laborum, _scrape_bne and _scrape_trabajando,
\* which has no suspension: the postings appended to `found` from card i on.
RECURSIVE ExtractAll(_, _, _, _)
ExtractAll(broken, i, last, found) ==
    LET k == NextCard(broken, i, last) IN
    IF k > last THEN found ELSE ExtractAll(broken, k + 1, last, Append(found, k))

\* `return jobs`
ScrapeDone(c, found) == [c EXCEPT !.pc = "done", !.returned = TRUE, !.result = found]

\* _scrape_<portal>(filters) up to its first suspension. _scrape_linkedin gets
\* the page with the driver and awaits _human_delay(3, 6); the other three get
\* it with session.get, run the card loop and await _human_delay(3, 8).
\* A page that cannot be had ends the call with no postings: at once when the
\* retrieval (or, in _scrape_laborum, raise_for_status) raises, after the
\* delay when _scrape_bne or _scrape_trabajando sees a status other than 200.
ScrapeOpen(outcome) ==
    /\ call.op = "_scrape"
    /\ call.pc = "open"
    /\ outcome = "not200" => call.portal # LINKEDIN
    /\ LET c == [call EXCEPT !.page = outcome]
           last == BatchBound(call.portal, call.cards)
       IN call' =
            IF outcome = "ok"
            THEN IF call.portal = LINKEDIN
                 THEN [c EXCEPT !.pc = "loaded"]
                 ELSE [c EXCEPT !.pc = "batch_delay", !.i = last + 1,
                                !.jobs = ExtractAll(call.broken, 1, last, <<>>)]
            ELSE IF outcome = "not200" /\ call.portal # LABORUM
            THEN [c EXCEPT !.pc = "batch_delay"]
            ELSE ScrapeDone(c, <<>>)
    /\ UNCHANGED <<pvars, qvars, reply, cv_calls, search_filters, search_tasks,
                   ai_config, cfg_calls, active_chats>>

\* _scrape_linkedin resumed after a delay: the card loop from card i up to the
\* next posting appended, after which it awaits _human_delay(1, 3), or to the
\* end of the loop, `driver.quit()` and the return.
ScrapeCard ==
    /\ call.op = "_scrape"
    /\ call.pc \in {"loaded", "card_delay"}
    /\ LET last == BatchBound(call.portal, call.cards)
           k == NextCard(call.broken, call.i, last)
       IN call' =
            IF k > last
            THEN ScrapeDone([call EXCEPT !.i = k], call.jobs)
            ELSE [call EXCEPT !.pc = "card_delay", !.i = k + 1, !.jobs = Append(@, k)]
    /\ UNCHANGED <<pvars, qvars, reply, cv_calls, search_filters, search_tasks,
                   ai_config, cfg_calls, active_chats>>

\* _human_delay(3, 8) after the card loop ends and the scraper returns.
ScrapeBatchDelayDone ==
    /\ call.op = "_scrape"
    /\ call.pc = "batch_delay"
    /\ call' = ScrapeDone(call, call.jobs)
    /\ UNCHANGED <<pvars, qvars, reply, cv_calls, search_filters, search_tasks,
                   ai_config, cfg_calls, active_chats>>

\* The filters.portals lists a pass may be given.
RECURSIVE SeqsUpTo(_, _)
SeqsUpTo(S, n) ==
    IF n = 0 THEN {<<>>}
    ELSE LET shorter == SeqsUpTo(S, n - 1)
         IN shorter \cup {Append(q, x) : q \in shorter, x \in S}
PortalLists == SeqsUpTo(JobPortal, MaxPortals)

Slots == 1..NumPasses
\* A slot's locals: where the loop stands (`rest` is what the for loop has
\* still to visit, its head the portal being fetched), the count its last
\* quota check read, the portals it logged as over their daily limit, the
\* number of postings in all_jobs, the portals whose fetch raised, and the
\* lists all_jobs was extended with, each as <<portal, number of postings>>.
\* An idle slot keeps what its last call returned.
Idle == [pc |-> "idle", rest |-> <<>>, seen |-> 0, skipped |-> {},
         all_jobs |-> 0, failed |-> {}, batches |-> <<>>]

\* `return all_jobs`
Return(p) ==
    [Idle EXCEPT !.all_jobs = p.all_jobs, !.failed = p.failed, !.batches = p.batches]

\* The postings of all_jobs, in order, each as <<portal, listing>>: a portal's
\* scraper returns the postings of the first listings of its page, and the
\* page shows the same listings each time it is scraped.
RECURSIVE Postings(_)
Postings(batches) ==
    IF batches = <<>>
    THEN <<>>
    ELSE LET b == batches[Len(batches)] IN
         Postings(SubSeq(batches, 1, Len(batches) - 1))
            \o [k \in 1..b[2] |-> <<b[1], k>>]

\* The top of `for portal in filters.portals:` with `rest` still to visit:
\* refused portals are passed over (logged, `continue`) without a suspension,
\* the first allowed one has its scraper awaited, and the end of the list
\* returns all_jobs.
RECURSIVE LoopHead(_, _)
LoopHead(counts, p) ==
    IF p.rest = <<>>
    THEN Return(p)
    ELSE LET portal == Head(p.rest) IN
         IF Refused(counts, portal)
         THEN LoopHead(counts, [p EXCEPT !.rest = Tail(@),
                                         !.skipped = @ \cup {portal}])
         ELSE [p EXCEPT !.pc = "fetch", !.seen = counts[portal]]

\* The exception leaves search_jobs and the call returns nothing.
OnScrapeErrorPropagates(counts, p) ==
    [Idle EXCEPT !.failed = p.failed \cup {Head(p.rest)}]

\* `except Exception as e: logger.error(...); continue`
OnScrapeError(counts, p) ==
    LoopHead(counts, [p EXCEPT !.rest = Tail(@), !.seen = 0,
                               !.failed = @ \cup {Head(p.rest)}])

\* search_jobs(filters) up to its first suspension.
SearchJobs(s) ==
    /\ pass[s].pc = "idle"
    /\ LET tracker == ResetDailyLimits(today, current_counts, last_reset) IN
        /\ current_counts' = tracker[1]
        /\ last_reset' = tracker[2]
        /\ pass' = [pass EXCEPT ![s] =
                LoopHead(tracker[1], [Idle EXCEPT !.rest = filters])]
    /\ UNCHANGED <<today, filters, overfetched, pvars, svars, reply>>

\* The tracker counting fetches instead of postings.
RecordOneFetch(counts, portal, n) == [counts EXCEPT ![portal] = @ + 1]

\* `self.current_counts[portal] += len(jobs)`
Record(counts, portal, n) == [counts EXCEPT ![portal] = @ + n]

\* `jobs = await self._scrape_<portal>(filters)` returns n postings:
\* all_jobs.extend(jobs); self.current_counts[portal] += len(jobs); then the
\* pass awaits _human_delay(10, 20).
FetchReturn(s, n) ==
    /\ pass[s].pc = "fetch"
    /\ LET portal == Head(pass[s].rest) IN
        /\ n \in ScrapeSizes(portal)
        /\ current_counts' = Record(current_counts, portal, n)
        /\ pass' = [pass EXCEPT ![s].pc = "delay", ![s].seen = 0,
                                ![s].all_jobs = @ + n,
                                ![s].batches = Append(@, <<portal, n>>)]
        /\ overfetched' = (overfetched \/ n > DailyLimits(portal) - pass[s].seen)
    /\ UNCHANGED <<today, last_reset, filters, pvars, svars, reply>>

\* The awaited scraper raises (its `finally: driver.quit()` is outside its own
\* handlers): `except Exception: ... continue`.
FetchRaise(s) ==
    /\ pass[s].pc = "fetch"
    /\ pass' = [pass EXCEPT ![s] = OnScrapeError(current_counts, pass[s])]
    /\ UNCHANGED <<today, last_reset, current_counts, filters, overfetched, pvars, svars, reply>>

\* The portal never answers. _scrape_laborum, _scrape_bne and
\* _scrape_trabajando pass `timeout=30` to session.get, whose Timeout their own
\* handler turns into an empty result (FetchReturn with no postings);
\* _scrape_linkedin calls `driver.get(search_url)` with no timeout and no
\* timer runs beside it, so that call never returns and the pass stays where
\* it is.
FetchHang(s) ==
    /\ pass[s].pc = "fetch"
    /\ Head(pass[s].rest) = LINKEDIN
    /\ pass' = [pass EXCEPT ![s].pc = "hung"]
    /\ UNCHANGED <<today, last_reset, current_counts, filters, overfetched, pvars, svars, reply>>

\* _human_delay(10, 20) ends and the loop goes on.
DelayDone(s) ==
    /\ pass[s].pc = "delay"
    /\ pass' = [pass EXCEPT ![s] =
            LoopHead(current_counts, [pass[s] EXCEPT !.rest = Tail(@), !.seen = 0])]
    /\ UNCHANGED <<today, last_reset, current_counts, filters, overfetched, pvars, svars, reply>>

\* The UTC date advances.
Midnight ==
    /\ today < MaxDay
    /\ today' = today + 1
    /\ UNCHANGED <<last_reset, current_counts, filters, pass, overfetched, pvars, svars, reply>>

\* ----------------------------------------------------------- specifications
CvDocs == [user_id : Users, is_default : BOOLEAN]
\* The stores the pipeline starts from: c1 was created by u1
\* (create_cv), is default or not, and may have been deleted.
CvOwner(c) == "u1"
PipelineCvIds == {"c1"}
InitialCvStores ==
    {s \in [CvIds -> CvDocs \cup {NoDoc}] :
        \A c \in CvIds : /\ (s[c] # NoDoc => s[c].user_id = CvOwner(c))
                          /\ (c \notin PipelineCvIds => s[c] = NoDoc)}
JobDocs == [portal : JobPortal \cup {UnknownPortal}]
\* The documents put into db.jobs while the pipeline runs: postings of two of
\* the four portals, whose dispatch branches are alike, and a document that
\* fails JobPosting validation.
PipelineJobDocs == [portal : {LINKEDIN, BNE, UnknownPortal}]

\* No request has been answered, no handler is in flight and the stores of
\* filters and AI configurations are empty.
ServerQuiet ==
    /\ reply = None
    /\ cv_calls = [k \in CallSlots |-> NoCall]
    /\ search_filters = [f \in FilterIds |-> NoDoc]
    /\ search_tasks = <<>>
    /\ ai_config = {}
    /\ cfg_calls = [k \in CallSlots |-> NoCall]
    /\ active_chats = {}

PipelineInit ==
    /\ jobs = [j \in JobIds |-> NoDoc]
    /\ cvs \in InitialCvStores
    /\ applications = <<>>
    /\ run = <<>>
    /\ prov = <<>>
    /\ letter_requests = <<>>
    /\ submit_calls = <<>>
    /\ today = 0
    /\ last_reset = 0
    /\ current_counts = ZeroCounts
    /\ filters = <<>>
    /\ pass = [s \in Slots |-> Idle]
    /\ overfetched = FALSE
    /\ ServerQuiet
    /\ call = NotCalled

PipelineNext ==
    \/ \E u \in Users, j \in JobIds, c \in PipelineCvIds \cup {None} : ApplyToJob(u, j, c)
    \/ \E c \in CvIds : DeleteCv(c)
    \/ \E j \in JobIds, d \in PipelineJobDocs : StoreJob(j, d)
    \/ \E j \in JobIds : ExpireJob(j)
    \/ \E a \in AppIds : FindApplication(a)
    \/ \E a \in AppIds : FindJob(a)
    \/ \E a \in AppIds, outcome \in ProviderOutcomes : FindCv(a, outcome)
    \/ \E a \in AppIds, success \in BOOLEAN : ApplyReturn(a, success)
    \/ \E a \in AppIds : UpdateStatus(a)

Spec == PipelineInit /\ [][PipelineNext]_vars

\* The CV endpoints, with create_cv calls overlapping at their store calls.
NoApplications ==
    /\ jobs = [j \in JobIds |-> NoDoc]
    /\ applications = <<>>
    /\ run = <<>>
    /\ prov = <<>>
    /\ letter_requests = <<>>
    /\ submit_calls = <<>>

ScraperFresh ==
    /\ today = 0
    /\ last_reset = 0
    /\ current_counts = ZeroCounts
    /\ filters = <<>>
    /\ pass = [s \in Slots |-> Idle]
    /\ overfetched = FALSE

CvInit ==
    /\ NoApplications
    /\ cvs = [c \in CvIds |-> NoDoc]
    /\ ScraperFresh
    /\ ServerQuiet
    /\ call = NotCalled

CvNext ==
    \/ \E k \in CallSlots, c \in CvIds, u \in Users, d \in BOOLEAN : CreateCv(k, c, u, d)
    \/ \E k \in CallSlots : CreateCvInsert(k)
    \/ \E c \in CvIds : DeleteCv(c)

CvSpec == CvInit /\ [][CvNext]_vars

\* The CV endpoints called one after the other: a call starts only when no
\* create_cv is between its two store calls.
NoCvCall == \A k \in CallSlots : cv_calls[k].pc = "idle"

CvSeqNext ==
    \/ \E k \in CallSlots, c \in CvIds, u \in Users, d \in BOOLEAN :
            NoCvCall /\ CreateCv(k, c, u, d)
    \/ \E k \in CallSlots : CreateCvInsert(k)
    \/ \E c \in CvIds, d \in BOOLEAN : NoCvCall /\ UpdateCv(c, d)
    \/ \E c \in CvIds : NoCvCall /\ DeleteCv(c)

CvSeqSpec == CvInit /\ [][CvSeqNext]_vars

\* The search endpoints and the background tasks they add.
SearchInit ==
    /\ NoApplications
    /\ cvs = [c \in CvIds |-> NoDoc]
    /\ ScraperFresh
    /\ ServerQuiet
    /\ call = NotCalled

SearchNext ==
    \/ \E f \in FilterIds, u \in Users : CreateSearchFilters(f, u)
    \/ \E f \in FilterIds : UpdateSearchFilters(f)
    \/ \E u \in Users : StartSearch(u)
    \/ \E u \in Users : StopSearch(u)
    \/ \E i \in 1..MaxSearches : SearchAndApply(i)

SearchSpec == SearchInit /\ [][SearchNext]_vars

\* The AI configuration endpoint, with calls overlapping at their store calls.
AiConfigInit ==
    /\ NoApplications
    /\ cvs = [c \in CvIds |-> NoDoc]
    /\ ScraperFresh
    /\ ServerQuiet
    /\ call = NotCalled

AiConfigNext ==
    \/ \E k \in CallSlots, a \in ConfigIds, u \in Users, key \in ApiKeys :
            CreateAiConfig(k, a, u, key)
    \/ \E k \in CallSlots, chat_built \in BOOLEAN : CreateAiConfigInsert(k, chat_built)

AiConfigSpec == AiConfigInit /\ [][AiConfigNext]_vars

\* The keyword matcher on every text and keyword list within the bounds, over
\* an alphabet with a letter in both cases and one in lowercase only.
Chars == {"a", "A", "b"}
Texts == SeqsUpTo(Chars, MaxTextLen)
Keywords == SeqsUpTo(Chars, MaxKeywordLen)
KeywordLists == SeqsUpTo(Keywords, MaxKeywords)

MatchInit ==
    /\ NoApplications
    /\ cvs = [c \in CvIds |-> NoDoc]
    /\ ScraperFresh
    /\ ServerQuiet
    /\ call \in [op : {"_find_matching_keywords"}, text : Texts,
                  keywords : KeywordLists, returned : {FALSE}, result : {<<>>}]

MatchNext == FindMatchingKeywordsReturn

MatchSpec == MatchInit /\ [][MatchNext]_vars

\* The compatibility fallback on every CV text and posting within the bounds,
\* character by character, and on CVs and postings of up to eleven one-letter
\* words, the first two of which the CV has in upper case.
TextChars == {"a", "A", "b", Space}
RawTexts == SeqsUpTo(TextChars, MaxRawText)
Descriptions == SeqsUpTo(TextChars, MaxDescription)
RequirementLists == SeqsUpTo(SeqsUpTo(TextChars, MaxRequirementLen), MaxRequirements)

CvWords == <<"A", "B", "c", "d", "e", "f", "g", "h", "i", "j", "k">>
PostingWords == <<"a", "b", "c", "d", "e", "f", "g", "h", "i", "j", "k">>
\* The first n of the words, a space after each.
RECURSIVE Spaced(_, _)
Spaced(words, n) ==
    IF n = 0 THEN <<>> ELSE Spaced(words, n - 1) \o <<words[n], Space>>
WordyCvs == {[raw_text |-> Spaced(CvWords, n)] : n \in 0..Len(CvWords)}
\* The first n words in the description, or the n-th as the one requirement.
WordyPostings ==
    {[description |-> Spaced(PostingWords, n), requirements |-> <<>>] :
        n \in 0..Len(PostingWords)}
    \cup {[description |-> Spaced(PostingWords, n - 1),
           requirements |-> << <<PostingWords[n]>> >>] : n \in 1..Len(PostingWords)}

CompatInit ==
    /\ NoApplications
    /\ cvs = [c \in CvIds |-> NoDoc]
    /\ ScraperFresh
    /\ ServerQuiet
    /\ call \in
        [op : {"_basic_compatibility_analysis"},
         cv_data : [raw_text : RawTexts],
         job_posting : [description : Descriptions, requirements : RequirementLists],
         returned : {FALSE}, result : {<<>>}]
        \cup [op : {"_basic_compatibility_analysis"},
              cv_data : WordyCvs, job_posting : WordyPostings,
              returned : {FALSE}, result : {<<>>}]

CompatNext == BasicCompatibilityAnalysisReturn

CompatSpec == CompatInit /\ [][CompatNext]_vars

\* The provider operations of ai_service, for users with and without a chat
\* and a provider that answers or raises.
FormQuestions == SeqsUpTo({"q1", "q2"}, MaxQuestions)
Responses == SeqsUpTo(ResponseLines, MaxResponseLines)
SampleCvs == {[raw_text |-> Spaced(CvWords, n)] : n \in {0, 4}}
SamplePostings ==
    {[description |-> Spaced(PostingWords, n), requirements |-> <<>>] : n \in {0, 4}}

AiInit ==
    /\ NoApplications
    /\ cvs = [c \in CvIds |-> NoDoc]
    /\ ScraperFresh
    /\ reply = None
    /\ cv_calls = [k \in CallSlots |-> NoCall]
    /\ search_filters = [f \in FilterIds |-> NoDoc]
    /\ search_tasks = <<>>
    /\ ai_config = {}
    /\ cfg_calls = [k \in CallSlots |-> NoCall]
    /\ active_chats \in SUBSET Users
    /\ call \in [op : ProviderOps, user_id : Users, outcome : ProviderOutcomes,
                  cv_data : SampleCvs, job_posting : SamplePostings,
                  form_questions : FormQuestions, response : Responses,
                  returned : {FALSE}, result : {<<>>}]

AiNext == ProviderOpReturn

AiSpec == AiInit /\ [][AiNext]_vars

\* Starlette runs every background task it was given: a task that can take
\* its next step (a store call answering, asyncio.sleep(2) ending) takes it.
RunStep(a) ==
    \/ FindApplication(a)
    \/ FindJob(a)
    \/ \E outcome \in ProviderOutcomes : FindCv(a, outcome)
    \/ \E success \in BOOLEAN : ApplyReturn(a, success)
    \/ UpdateStatus(a)

FairSpec == Spec /\ \A a \in 1..MaxApps : WF_vars(a \in AppIds /\ RunStep(a))

\* The scrape scheduler: scraper_service is one ScraperService shared by every
\* caller of search_jobs.
QuotaInit ==
    /\ jobs = [j \in JobIds |-> NoDoc]
    /\ cvs = [c \in CvIds |-> NoDoc]
    /\ applications = <<>>
    /\ run = <<>>
    /\ prov = <<>>
    /\ letter_requests = <<>>
    /\ submit_calls = <<>>
    /\ today = 0
    /\ last_reset = 0
    /\ current_counts = ZeroCounts
    /\ filters \in PortalLists
    /\ pass = [s \in Slots |-> Idle]
    /\ overfetched = FALSE
    /\ ServerQuiet
    /\ call = NotCalled

QuotaNext ==
    \/ \E s \in Slots : SearchJobs(s)
    \/ \E s \in Slots, n \in AllScrapeSizes : FetchReturn(s, n)
    \/ \E s \in Slots : FetchRaise(s)
    \/ \E s \in Slots : DelayDone(s)
    \/ Midnight

QuotaSpec == QuotaInit /\ [][QuotaNext]_vars

\* The same scheduler with its passes run one after the other: search_jobs is
\* called only when no other call is in flight.
NoPassInFlight == \A s \in Slots : pass[s].pc = "idle"

QuotaSeqNext ==
    \/ \E s \in Slots : NoPassInFlight /\ SearchJobs(s)
    \/ \E s \in Slots, n \in AllScrapeSizes : FetchReturn(s, n)
    \/ \E s \in Slots : FetchRaise(s)
    \/ \E s \in Slots : DelayDone(s)
    \/ Midnight

QuotaSeqSpec == QuotaInit /\ [][QuotaSeqNext]_vars

\* The scheduler on one date with portals that may never answer. The event
\* loop resumes a pass whose awaited scraper or sleep has finished.
PassStep(s) ==
    \/ \E n \in AllScrapeSizes : FetchReturn(s, n)
    \/ FetchRaise(s)
    \/ DelayDone(s)

BlockingNext ==
    \/ \E s \in Slots : SearchJobs(s)
    \/ \E s \in Slots : PassStep(s)
    \/ \E s \in Slots : FetchHang(s)

BlockingSpec ==
    QuotaInit /\ [][BlockingNext]_vars /\ \A s \in Slots : WF_vars(PassStep(s))

\* The pipeline beside a writer that advances stored applications out of band.
AdvanceNext ==
    \/ \E u \in Users, j \in JobIds, c \in PipelineCvIds \cup {None} : ApplyToJob(u, j, c)
    \/ \E j \in JobIds, d \in PipelineJobDocs : StoreJob(j, d)
    \/ \E a \in AppIds : RunStep(a)
    \/ \E a \in AppIds : ExternalAdvance(a)

AdvanceSpec == PipelineInit /\ [][AdvanceNext]_vars

\* The pipeline for users who have configured their AI provider: apply_to_job
\* is called for a user once a create_ai_config call of theirs has stored a
\* chat.
ConfiguredNext ==
    \/ \E key \in {None, "key1"} : CreateAiConfig(1, "a1", "u1", key)
    \/ \E chat_built \in BOOLEAN : CreateAiConfigInsert(1, chat_built)
    \/ \E j \in JobIds, d \in PipelineJobDocs : StoreJob(j, d)
    \/ \E u \in active_chats, j \in JobIds, c \in PipelineCvIds : ApplyToJob(u, j, c)
    \/ \E a \in AppIds : RunStep(a)

ConfiguredSpec == PipelineInit /\ [][ConfiguredNext]_vars

\* One call of a portal's scraper on every page within the bounds.
ScrapeInit ==
    /\ NoApplications
    /\ cvs = [c \in CvIds |-> NoDoc]
    /\ ScraperFresh
    /\ ServerQuiet
    /\ call \in [op : {"_scrape"}, portal : JobPortal, cards : PageSizes,
                  broken : SUBSET BrokenCards, page : {None}, pc : {"open"},
                  i : {1}, jobs : {<<>>}, returned : {FALSE}, result : {<<>>}]

ScrapeNext ==
    \/ \E outcome \in PageOutcomes : ScrapeOpen(outcome)
    \/ ScrapeCard
    \/ ScrapeBatchDelayDone

ScrapeSpec == ScrapeInit /\ [][ScrapeNext]_vars

\* ------------------------------------------------------------------ claims
Done(a) == run[a].pc = "done"
JobFound(a) == run[a].job_doc # NoDoc
CvFound(a) == run[a].cv_doc # NoDoc
\* The run got past both lookups with a posting that validates.
Dispatched(a) == JobFound(a) /\ CvFound(a) /\ ValidJobPosting(run[a].job_doc)
NonEmpty(text) == text # None /\ text # ""

\* C1: every application created by apply_to_job (pending, one run enqueued)
\* eventually has its run finished with the stored status applied or rejected,
\* whatever the AI provider does; no run stays pending or dies on an error.
C1_Terminates ==
    \A a \in 1..MaxApps :
        (a \in AppIds) ~>
            (a \in AppIds /\ Done(a) /\ applications[a].status \in {APPLIED, REJECTED})

\* A run whose provider errors has finished in a terminal status.
C1_Witness ==
    \E a \in AppIds :
        /\ Done(a) /\ prov[a] = "error"
        /\ applications[a].status \in {APPLIED, REJECTED}
        /\ run[a].cover_letter \in {LetterNoConfig, LetterOnError}

\* C2: the statuses stored by intake and written (or about to be written) by
\* the pipeline are pending, applied and rejected only.
C2_PipelineStatuses ==
    \A a \in AppIds :
        /\ applications[a].status \in {PENDING, APPLIED, REJECTED}
        /\ run[a].upd_status \in {None, APPLIED, REJECTED}
        /\ (run[a].pc \in {"queued", "find_job", "find_cv", "applying"}
                => applications[a].status = PENDING)

\* Both outcomes have been written.
C2_Witness ==
    \E a, b \in AppIds :
        /\ Done(a) /\ applications[a].status = APPLIED
        /\ Done(b) /\ applications[b].status = REJECTED

\* C3: a finished run whose posting lookup or CV lookup found nothing left the
\* application rejected with a non-empty note and applied_at unset, and called
\* neither generate_cover_letter nor a submission routine.
C3_MissingData ==
    \A a \in AppIds :
        (Done(a) /\ (~JobFound(a) \/ ~CvFound(a))) =>
            /\ applications[a].status = REJECTED
            /\ NonEmpty(applications[a].notes)
            /\ applications[a].applied_at = None
            /\ letter_requests[a] = 0
            /\ submit_calls[a] = 0
            /\ run[a].cover_letter = None

\* One finished run missed its posting, another its CV.
C3_Witness ==
    /\ \E a \in AppIds : Done(a) /\ ~JobFound(a)
    /\ \E a \in AppIds : Done(a) /\ JobFound(a) /\ ~CvFound(a)

\* C4: after a run whose submission routine returned success the stored
\* application is applied, has applied_at set, and its stored portal_data
\* holds what the routine recorded.
C4_SuccessRecorded ==
    \A a \in AppIds :
        (Done(a) /\ run[a].success) =>
            /\ applications[a].status = APPLIED
            /\ applications[a].applied_at = Stamped
            /\ applications[a].portal_data # EmptyBag
            /\ applications[a].portal_data = run[a].portal_data

\* C5: a finished run whose submission routine returned failure, or in which
\* an exception was raised, left the application rejected with the error text
\* (or the failure reason) in notes, and did not set applied_at.
C5_FailureRejected ==
    \A a \in AppIds :
        /\ (Done(a) /\ submit_calls[a] = 1 /\ ~run[a].success) =>
                /\ applications[a].status = REJECTED
                /\ NonEmpty(applications[a].notes)
                /\ applications[a].applied_at = None
        /\ (run[a].pc \in {"done", "crashed"} /\ run[a].error # None) =>
                /\ Done(a)
                /\ applications[a].status = REJECTED
                /\ NonEmpty(applications[a].notes)
                /\ applications[a].notes = run[a].error
                /\ applications[a].applied_at = None

\* One finished run had its submission fail, another raised.
C5_Witness ==
    /\ \E a \in AppIds : Done(a) /\ submit_calls[a] = 1 /\ ~run[a].success
    /\ \E a \in AppIds : Done(a) /\ run[a].error # None

\* C6: the outcome of a run is a function of what the lookups found and of
\* what the submission routine returned, never of the provider: a run that got
\* past the lookups always reaches its submission routine and ends applied
\* exactly when that routine succeeded, and two finished runs that agree on
\* the posting, the CV and the submission result (but maybe not on the
\* provider) agree on status and on applied_at.
RunInputs(a) == <<run[a].job_doc, run[a].cv_doc, submit_calls[a], run[a].success>>

C6_ProviderIndependent ==
    /\ \A a \in AppIds :
        (Done(a) /\ Dispatched(a)) =>
            /\ submit_calls[a] = 1
            /\ applications[a].status = (IF run[a].success THEN APPLIED ELSE REJECTED)
            /\ applications[a].applied_at = (IF run[a].success THEN Stamped ELSE None)
    /\ \A a, b \in AppIds :
        (Done(a) /\ Done(b) /\ RunInputs(a) = RunInputs(b)) =>
            /\ applications[a].status = applications[b].status
            /\ applications[a].applied_at = applications[b].applied_at

\* Two finished runs over the same posting, CV and submission result, one
\* with the provider answering and one with the provider erroring.
C6_Witness ==
    \E a, b \in AppIds :
        /\ Done(a) /\ Done(b) /\ Dispatched(a) /\ RunInputs(a) = RunInputs(b)
        /\ prov[a] = "ok" /\ prov[b] = "error"
        /\ applications[a].status = APPLIED /\ applications[b].status = APPLIED

\* In this step pass s starts awaiting the scraper of portal p.
EntersFetch(s, p) ==
    /\ pass'[s].pc = "fetch"
    /\ Head(pass'[s].rest) = p
    /\ (pass[s].pc # "fetch" \/ pass'[s].rest # pass[s].rest)

\* C7: once a portal's count is at or past its daily limit it stays there
\* while last_reset is unchanged, no pass starts that portal's scraper on a
\* check that finds it so, and the count falls below the limit again only by
\* the reset made when the date has advanced.
C7_RefusedUntilReset ==
    [][\A p \in JobPortal :
        /\ (current_counts[p] >= DailyLimits(p) /\ last_reset' = last_reset)
                => current_counts'[p] >= DailyLimits(p)
        /\ \A s \in Slots : EntersFetch(s, p) => current_counts'[p] < DailyLimits(p)
        /\ (current_counts[p] >= DailyLimits(p) /\ current_counts'[p] < DailyLimits(p))
                => (today > last_reset /\ last_reset' = today)
      ]_vars

\* A pass has passed over a portal whose count stands exactly at its limit and
\* is fetching the next one.
C7_Witness ==
    \E s \in Slots, p \in JobPortal :
        /\ p \in pass[s].skipped
        /\ pass[s].pc = "fetch"
        /\ current_counts[p] = DailyLimits(p)
        /\ last_reset = today

C9_FetchWithinQuota ==
    /\ ~overfetched
    /\ \A p \in JobPortal : current_counts[p] <= DailyLimits(p)

\* C10: with passes interleaved at their suspension points no count goes past
\* its daily limit; stated for the behaviours in which every fetch returned no
\* more than the quota left at its own check, so that what fails is the
\* interleaving and not the size of one fetch.
C10_ConcurrentWithinCeiling ==
    ~overfetched => \A p \in JobPortal : current_counts[p] <= DailyLimits(p)

\* In this step the fetch pass s was awaiting raised.
RaiseStep(s) ==
    /\ pass[s].pc = "fetch"
    /\ pass'[s] # pass[s]
    /\ pass'[s].pc # "delay"

\* After this step every portal that followed the one pass s was at has been
\* passed over as refused, up to the one now being fetched or the end of the
\* list.
VisitsRest(s) ==
    LET old == Tail(pass[s].rest)
        new == pass'[s].rest
    IN  /\ \E k \in 0..Len(old) :
            /\ new = SubSeq(old, k + 1, Len(old))
            /\ \A i \in 1..k : current_counts'[old[i]] >= DailyLimits(old[i])
        /\ pass'[s].pc = (IF new = <<>> THEN "idle" ELSE "fetch")

\* C11: a fetch that raises leaves all_jobs as it was and the pass goes on to
\* the remaining portals; a fetch that returns adds exactly its postings; and
\* the loop's other steps, the return included, lose none of them.
C11_FailureIsolated ==
    [][\A s \in Slots :
        /\ RaiseStep(s) =>
            /\ pass'[s].all_jobs = pass[s].all_jobs
            /\ VisitsRest(s)
        /\ (pass[s].pc = "fetch" /\ pass'[s].pc = "delay") =>
            LET portal == Head(pass[s].rest) IN
            pass'[s].all_jobs =
                pass[s].all_jobs + (current_counts'[portal] - current_counts[portal])
        /\ (pass[s].pc = "delay" /\ pass'[s] # pass[s]) =>
            /\ pass'[s].all_jobs = pass[s].all_jobs
            /\ VisitsRest(s)
      ]_vars

\* Over two different portals, one call returned postings although its first
\* portal's fetch raised, and another although its second portal's did.
C11_Witness ==
    /\ Len(filters) = 2 /\ filters[1] # filters[2]
    /\ \E s, t \in Slots :
        /\ pass[s].pc = "idle" /\ pass[s].failed = {filters[1]}
        /\ pass[s].all_jobs > 0
        /\ pass[t].pc = "idle" /\ pass[t].failed = {filters[2]}
        /\ pass[t].all_jobs > 0

\* The applications of user u for job j that are not rejected.
ActiveApplications(u, j) ==
    {a \in AppIds : /\ applications[a].user_id = u
                    /\ applications[a].job_id = j
                    /\ applications[a].status # REJECTED}

\* C12: every (user, job) pair has at most one application that is not
\* rejected.
C12_OneActivePerPair ==
    \A u \in Users, j \in JobIds : Cardinality(ActiveApplications(u, j)) <= 1

\* The stored CVs of user u that are flagged as default.
StoredDefaults(u) ==
    {c \in CvIds : cvs[c] # NoDoc /\ cvs[c].user_id = u /\ cvs[c].is_default = TRUE}

\* C15: an apply_to_job call for a job that is not stored answers 404, and one
\* without a cv for a user without a default CV answers 400, and neither
\* changes anything but the response; any other call answers 200 and adds
\* exactly one pending application, with the given CV or a default CV of the
\* user, and exactly one queued pipeline run; and nothing else adds
\* applications or runs.
C15_ApplyPreconditions ==
    [][/\ \A u \in Users, j \in JobIds, c \in CvIds \cup {None} :
            ApplyToJob(u, j, c) =>
                IF jobs[j] = NoDoc \/ (c = None /\ StoredDefaults(u) = {})
                THEN /\ reply' = (IF jobs[j] = NoDoc THEN NotFound ELSE BadRequest)
                     /\ UNCHANGED <<pvars, qvars, svars>>
                ELSE /\ reply' = Ok
                     /\ Len(applications') = Len(applications) + 1
                     /\ SubSeq(applications', 1, Len(applications)) = applications
                     /\ LET new == applications'[Len(applications')] IN
                         /\ new.status = PENDING
                         /\ new.user_id = u /\ new.job_id = j
                         /\ new.cv_used \in (IF c = None THEN StoredDefaults(u) ELSE {c})
                     /\ Len(run') = Len(run) + 1
                     /\ SubSeq(run', 1, Len(run)) = run
                     /\ run'[Len(run')].pc = "queued"
       /\ (Len(applications') # Len(applications) \/ Len(run') # Len(run))
            => \E u \in Users, j \in JobIds, c \in CvIds \cup {None} :
                    ApplyToJob(u, j, c)
      ]_vars

\* A call has been refused with 400 after an earlier one created an
\* application whose run is still queued, and the job is still stored.
C15_Witness ==
    /\ reply = BadRequest
    /\ Len(applications) = 1 /\ Len(run) = 1
    /\ applications[1].status = PENDING /\ run[1].pc = "queued"
    /\ \E j \in JobIds : jobs[j] # NoDoc

\* C13: between calls of the CV endpoints made one after the other, no user
\* has two stored CVs flagged as default.
C13_OneDefaultPerUser ==
    NoCvCall => \A u \in Users : Cardinality(StoredDefaults(u)) <= 1

\* C14: with create_cv calls overlapping, no state has two stored CVs of one
\* user flagged as default.
C14_AtomicDefault ==
    \A u \in Users : Cardinality(StoredDefaults(u)) <= 1

\* User u has a stored filter that is active.
HasActiveFilter(u) ==
    \E f \in FilterIds : /\ search_filters[f] # NoDoc
                         /\ search_filters[f].user_id = u
                         /\ search_filters[f].is_active = TRUE

\* In this step a filter of user u is created.
FilterCreated(u) ==
    \E f \in FilterIds : /\ search_filters[f] = NoDoc
                         /\ search_filters'[f] # NoDoc
                         /\ search_filters'[f].user_id = u

\* C16: start_automatic_search adds one search_and_apply task for the user
\* exactly when the user has an active filter and otherwise answers 400 and
\* adds nothing; tasks are added by nothing else; stop_automatic_search leaves
\* the user without an active filter and the tasks as they are; and a user
\* without an active filter gets one again only by a filter being created.
C16_StartNeedsActiveFilter ==
    [][/\ \A u \in Users :
            StartSearch(u) =>
                IF HasActiveFilter(u)
                THEN /\ reply' = Ok
                     /\ search_tasks' =
                            Append(search_tasks, [user_id |-> u, pc |-> "queued"])
                ELSE /\ reply' = BadRequest
                     /\ UNCHANGED <<search_tasks, search_filters>>
       /\ Len(search_tasks') # Len(search_tasks) =>
            /\ Len(search_tasks') = Len(search_tasks) + 1
            /\ HasActiveFilter(search_tasks'[Len(search_tasks')].user_id)
       /\ \A u \in Users :
            /\ StopSearch(u) => (~HasActiveFilter(u))' /\ search_tasks' = search_tasks
            /\ (~HasActiveFilter(u) /\ HasActiveFilter(u)') => FilterCreated(u)
       /\ \A i \in 1..Len(search_tasks) :
            \/ search_tasks'[i] = search_tasks[i]
            \/ /\ search_tasks[i].pc = "queued"
               /\ search_tasks'[i] = [search_tasks[i] EXCEPT !.pc = "done"]
      ]_vars

\* A start has been refused for a user whose filter was deactivated while the
\* task of an earlier start is still queued; every other user has an active
\* filter.
C16_Witness ==
    \E u \in Users :
        /\ reply = BadRequest
        /\ ~HasActiveFilter(u)
        /\ \E f \in FilterIds : search_filters[f] # NoDoc /\ search_filters[f].user_id = u
        /\ \E i \in 1..Len(search_tasks) :
                search_tasks[i] = [user_id |-> u, pc |-> "queued"]
        /\ \A v \in Users \ {u} : HasActiveFilter(v)

\* C17: no user has two stored AIConfig documents, in any state reached with
\* create_ai_config calls overlapping.
C17_OneConfigPerUser ==
    \A u \in Users : Cardinality({d \in ai_config : d.user_id = u}) <= 1

\* Keyword k, lowercased, occurs in the lowercased text t.
OccursLowercased(k, t) ==
    \E pre \in 0..Len(t) :
        /\ pre + Len(k) <= Len(t)
        /\ \A i \in 1..Len(k) : LowerChar(k[i]) = LowerChar(t[pre + i])

\* The positions of the keywords that occur, and the number of them up to i.
Occurring(keywords, t) == {i \in 1..Len(keywords) : OccursLowercased(keywords[i], t)}
OccurringUpTo(keywords, t, i) == Cardinality({j \in Occurring(keywords, t) : j <= i})

\* "Senior Backend Engineer" and ["backend", "java", "remote"]
SeniorBackendEngineer ==
    <<"S","e","n","i","o","r"," ","B","a","c","k","e","n","d"," ",
      "E","n","g","i","n","e","e","r">>
BackendJavaRemote ==
    << <<"b","a","c","k","e","n","d">>, <<"j","a","v","a">>,
       <<"r","e","m","o","t","e">> >>

\* C18: the matcher returns the keywords whose lowercase form occurs in the
\* lowercased text, each as it was given and in the order of the keyword list;
\* and for "Senior Backend Engineer" with ["backend", "java", "remote"] it
\* returns ["backend"].
C18_KeywordMatch ==
    /\ (call.op = "_find_matching_keywords" /\ call.returned) =>
        LET occurring == Occurring(call.keywords, call.text) IN
        /\ Len(call.result) = Cardinality(occurring)
        /\ \A i \in occurring :
            call.result[OccurringUpTo(call.keywords, call.text, i)] = call.keywords[i]
    /\ FindMatchingKeywords(SeniorBackendEngineer, BackendJavaRemote)
            = << <<"b","a","c","k","e","n","d">> >>

\* The matcher has returned two keywords in the order of the list although
\* the text has them the other way round, one of them found only by
\* lowercasing.
C18_Witness ==
    /\ call.op = "_find_matching_keywords" /\ call.returned
    /\ call.text = <<"b", "A">>
    /\ call.keywords = << <<"a">>, <<"b">> >>
    /\ call.result = << <<"a">>, <<"b">> >>

\* The words of a text: its runs of characters other than the space that
\* have the text's end or a space on either side, lowercased.
WordsOf(t) ==
    {Lower(SubSeq(t, i, j)) : <<i, j>> \in
        {ij \in (1..Len(t)) \X (1..Len(t)) :
            /\ ij[1] <= ij[2]
            /\ \A k \in ij[1]..ij[2] : t[k] # " "
            /\ (ij[1] = 1 \/ t[ij[1] - 1] = " ")
            /\ (ij[2] = Len(t) \/ t[ij[2] + 1] = " ")}}

\* The number of distinct words the CV text has in common with the posting's
\* description and requirements.
CommonWords(cv_data, job_posting) ==
    Cardinality(WordsOf(cv_data.raw_text)
        \cap (WordsOf(job_posting.description)
              \cup UNION {WordsOf(job_posting.requirements[i]) :
                            i \in 1..Len(job_posting.requirements)}))

\* A CV and a posting of n one-letter words each, the same ones.
CvOfWords(n) == [raw_text |-> Spaced(CvWords, n)]
PostingOfWords(n) == [description |-> Spaced(PostingWords, n), requirements |-> <<>>]

\* C19: the fallback's percentage is ten times the number of distinct common
\* words, capped at 100, and its recommendation is "Tal vez" exactly when the
\* percentage is over 30 and "No" otherwise; no common word gives 0 and "No",
\* three give 30 and "No", four give 40 and "Tal vez", ten and eleven give 100.
C19_CompatibilityFallback ==
    /\ (call.op = "_basic_compatibility_analysis" /\ call.returned) =>
        LET n == CommonWords(call.cv_data, call.job_posting)
            percentage == IF 10 * n <= 100 THEN 10 * n ELSE 100
        IN  /\ call.result.compatibility_percentage = percentage
            /\ call.result.recommendation = (IF percentage > 30 THEN "Tal vez" ELSE "No")
    /\ BasicCompatibilityAnalysis(CvOfWords(5), PostingOfWords(0))
            = [compatibility_percentage |-> 0, recommendation |-> "No"]
    /\ BasicCompatibilityAnalysis(CvOfWords(3), PostingOfWords(3))
            = [compatibility_percentage |-> 30, recommendation |-> "No"]
    /\ BasicCompatibilityAnalysis(CvOfWords(4), PostingOfWords(4))
            = [compatibility_percentage |-> 40, recommendation |-> "Tal vez"]
    /\ BasicCompatibilityAnalysis(CvOfWords(10), PostingOfWords(10)).compatibility_percentage = 100
    /\ BasicCompatibilityAnalysis(CvOfWords(11), PostingOfWords(11)).compatibility_percentage = 100

\* The fallback has returned 40 and "Tal vez" for a CV and a posting with four
\* common words, one of them in the posting's requirements and two matched
\* only by lowercasing.
C19_Witness ==
    /\ call.op = "_basic_compatibility_analysis" /\ call.returned
    /\ CommonWords(call.cv_data, call.job_posting) = 4
    /\ call.job_posting.requirements # <<>>
    /\ Len(call.cv_data.raw_text) > MaxRawText
    /\ call.result = [compatibility_percentage |-> 40, recommendation |-> "Tal vez"]

\* The call's user has no chat, or the provider raises.
NeedsFallback == call.user_id \notin active_chats \/ call.outcome = "error"

\* C20: a returned call of personalize_cv, generate_cover_letter,
\* generate_form_responses or analyze_job_compatibility has raised nothing,
\* and for a user without a chat or a provider that raised its value is the
\* fallback: the CV's raw text, one of the two templated letters, the fixed
\* answer for every question asked, the local analysis.
C20_ProviderNeverPropagates ==
    (call.op \in ProviderOps /\ call.returned) =>
        /\ call.result.raised = FALSE
        /\ NeedsFallback =>
            CASE call.op = "personalize_cv" ->
                    call.result.value = call.cv_data.raw_text
              [] call.op = "generate_cover_letter" ->
                    call.result.value
                        = (IF call.user_id \notin active_chats
                           THEN "Estimados Sres. de {company}, adjunto mi CV"
                           ELSE "Estimados Sres. de {company}, Tengo gran interes")
              [] call.op = "generate_form_responses" ->
                    /\ DOMAIN call.result.value
                        = {call.form_questions[i] : i \in 1..Len(call.form_questions)}
                    /\ \A q \in DOMAIN call.result.value :
                        call.result.value[q] = "Información disponible en CV adjunto"
              [] call.op = "analyze_job_compatibility" ->
                    LET n == CommonWords(call.cv_data, call.job_posting) IN
                    /\ call.result.value.compatibility_percentage = 10 * n
                    /\ call.result.value.recommendation
                        = (IF 10 * n > 30 THEN "Tal vez" ELSE "No")

\* personalize_cv has returned the CV's raw text for a user with a chat whose
\* provider raised.
C20_Witness ==
    /\ call.op = "personalize_cv" /\ call.returned
    /\ call.user_id \in active_chats /\ call.outcome = "error"
    /\ call.cv_data.raw_text # <<>>
    /\ call.result = [raised |-> FALSE, value |-> call.cv_data.raw_text]

\* C21: a pass that is awaiting a portal's scraper gets past that call, also
\* when the portal never answers, and so returns.
C21_NoCallBlocksForever ==
    \A s \in Slots : (pass[s].pc = "fetch") ~> (pass[s].pc = "idle")

\* C22: the write that ends a pipeline run changes the stored status only when
\* that status is still pending; a status advanced meanwhile is left as it is.
C22_WritesOnlyFromPending ==
    [][\A a \in AppIds :
        (UpdateStatus(a) /\ applications[a].status # PENDING)
            => applications'[a].status = applications[a].status
      ]_vars

\* C23: no run calls a portal submission routine more than once, and no step
\* changes the status of an application that is rejected.
C23_NoRetry ==
    [][\A a \in 1..Len(applications') :
        /\ submit_calls'[a] <= 1
        /\ (a \in AppIds /\ applications[a].status = REJECTED)
                => applications'[a].status = REJECTED
      ]_vars

\* One application was rejected after its single submission attempt failed,
\* and a later application of the same user has since been processed to
\* applied.
C23_Witness ==
    /\ Len(applications) = 2
    /\ applications[1].status = REJECTED /\ run[1].pc = "done"
    /\ submit_calls[1] = 1 /\ run[1].success = FALSE
    /\ applications[2].status = APPLIED /\ run[2].pc = "done"
    /\ applications[2].user_id = applications[1].user_id
    /\ applications[2].job_id = applications[1].job_id

\* C24: a run for a user with a configured provider, on an application
\* without a cover letter, submits the letter the provider wrote, and the
\* fallback letter only when the provider call failed.
C24_ConfiguredLetterFromProvider ==
    \A a \in AppIds :
        (applications[a].cover_letter = None /\ run[a].cover_letter # None) =>
            run[a].cover_letter =
                (IF prov[a] = "ok" THEN LetterFromAI ELSE LetterOnError)

\* In this step pass s compares a portal's count with its daily limit: at the
\* start of the call, or when the loop comes round after a fetch.
ConsultsQuota(s) ==
    \/ SearchJobs(s) /\ filters # <<>>
    \/ (FetchRaise(s) \/ DelayDone(s)) /\ Len(pass[s].rest) > 1

\* C25: every quota check made after the date has advanced, the checks in the
\* middle of a pass included, first zeroes the counts and moves last_reset to
\* the date.
C25_ResetOnEveryCheck ==
    [][\A s \in Slots :
        (ConsultsQuota(s) /\ today > last_reset)
            => (last_reset' = today /\ current_counts' = ZeroCounts)
      ]_vars

\* C26: within a pass a portal's fetch that follows another fetch starts only
\* when the inter-portal delay has elapsed, whether the earlier fetch returned
\* or raised.
C26_DelayBetweenFetches ==
    [][\A s \in Slots :
        (pass[s].pc # "idle" /\ pass'[s] # pass[s] /\ pass'[s].pc = "fetch")
            => pass[s].pc = "delay"
      ]_vars

\* C27: in every portal's scraper each step between two suspensions extracts
\* at most one posting, so that a delay lies between any two extractions.
C27_DelayBetweenListings ==
    [][call.op = "_scrape" => Len(call'.jobs) <= Len(call.jobs) + 1]_vars

\* The cards of the batch that extract, in page order.
ExtractableCards(portal, cards, broken) ==
    SelectSeq([k \in 1..cards |-> k],
              LAMBDA k : k <= DailyLimits(portal) /\ k \notin broken)

\* C28: a scraper that got its page returns the postings of exactly the
\* cards within the batch bound whose extraction succeeded, in page order,
\* whichever cards failed; without the page it returns none.
C28_FailedListingSkipped ==
    (call.op = "_scrape" /\ call.returned) =>
        call.result = (IF call.page = "ok"
                       THEN ExtractableCards(call.portal, call.cards, call.broken)
                       ELSE <<>>)

\* A scraper returned the first card and the cards after the failed second
\* one, up to the batch bound, from a page longer than that bound, a later
\* card within the bound having failed too.
C28_Witness ==
    /\ call.op = "_scrape" /\ call.returned /\ call.page = "ok"
    /\ call.portal \in {LINKEDIN, LABORUM}
    /\ call.cards = FullPage /\ call.broken = {2, PartialPage}
    /\ Len(call.result) = DailyLimits(call.portal) - 2
    /\ call.result[1] = 1 /\ call.result[2] = 3

\* C29: the postings a pass has collected hold no two entries for one
\* listing of one portal.
C29_NoDuplicatePostings ==
    \A s \in Slots :
        LET all_jobs == Postings(pass[s].batches) IN
        \A i, j \in 1..Len(all_jobs) : all_jobs[i] = all_jobs[j] => i = j

\* The portals a pass has awaited the scraper of, before the one it is at.
Invoked(p) == {b[1] : b \in ToSet(p.batches)} \cup p.failed

\* C30: a pass starts only scrapers of portals in its filter's portals, none
\* of them a second time, and collects only postings of those portals.
C30_ListedPortalsOnce ==
    [][\A s \in Slots :
        /\ \A p \in JobPortal :
            EntersFetch(s, p) =>
                /\ p \in ToSet(filters)
                /\ p \notin Invoked(pass'[s])
        /\ \A k \in 1..Len(Postings(pass'[s].batches)) :
                Postings(pass'[s].batches)[k][1] \in ToSet(filters)
      ]_vars

\* C31: a step of the run for application a leaves every posting, every CV
\* and every application record other than a's as it was, however the runs
\* interleave.
C31_RunWritesOwnRecord ==
    [][\A a \in AppIds :
        run'[a] # run[a] =>
            /\ jobs' = jobs
            /\ cvs' = cvs
            /\ Len(applications') = Len(applications)
            /\ \A b \in AppIds \ {a} : applications'[b] = applications[b]
      ]_vars

\* Two applications of one user for one posting: the run of the second has
\* written applied while the first, whose run is about to write, is still
\* the pending record apply_to_job inserted.
C31_Witness ==
    /\ Len(applications) = 2
    /\ applications[1].user_id = applications[2].user_id
    /\ applications[1].job_id = applications[2].job_id
    /\ run[2].pc = "done" /\ applications[2].status = APPLIED
    /\ run[1].pc = "update"
    /\ applications[1] =
            JobApplication(applications[1].user_id, applications[1].job_id,
                           applications[1].cv_used)

\* C32: the CV every application names in cv_used is stored and belongs to
\* the application's user.
C32_CvOfSameUser ==
    \A a \in AppIds :
        /\ cvs[applications[a].cv_used] # NoDoc
        /\ cvs[applications[a].cv_used].user_id = applications[a].user_id

\* The answer has a compatibility line whose value is not a number.
Malformed(response) ==
    \E i \in 1..Len(response) :
        /\ response[i].label = "COMPATIBILIDAD"
        /\ response[i].value \notin {"80", "20"}

\* C33: analyze_job_compatibility for a user with a chat whose provider
\* answered with a malformed response returns what the local analysis gives
\* for that CV and posting.
C33_MalformedFallsBackToLocal ==
    (/\ call.op = "analyze_job_compatibility" /\ call.returned
     /\ call.user_id \in active_chats /\ call.outcome = "ok"
     /\ Malformed(call.response)) =>
        LET n == CommonWords(call.cv_data, call.job_posting) IN
        /\ call.result.raised = FALSE
        /\ call.result.value.compatibility_percentage = 10 * n
        /\ call.result.value.recommendation
                = (IF 10 * n > 30 THEN "Tal vez" ELSE "No")

\* C34: a portal's count changes only when a fetch of that portal returns,
\* and then by the number of postings the fetch returned, or when the reset
\* of a new date zeroes every count; a fetch that raises and a portal passed
\* over as refused change no count; and no count falls while last_reset
\* stays.
C34_ExactAccounting ==
    [][/\ \A p \in JobPortal :
            current_counts'[p] # current_counts[p] =>
                \/ /\ today > last_reset
                   /\ last_reset' = today
                   /\ current_counts' = ZeroCounts
                \/ /\ last_reset' = last_reset
                   /\ \E s \in Slots :
                        /\ pass[s].pc = "fetch" /\ Head(pass[s].rest) = p
                        /\ pass'[s].pc = "delay"
                        /\ Len(pass'[s].batches) = Len(pass[s].batches) + 1
                        /\ LET b == pass'[s].batches[Len(pass'[s].batches)] IN
                            /\ b[1] = p
                            /\ current_counts'[p] = current_counts[p] + b[2]
                            /\ pass'[s].all_jobs = pass[s].all_jobs + b[2]
                   /\ \A q \in JobPortal \ {p} : current_counts'[q] = current_counts[q]
       /\ \A s \in Slots :
            (RaiseStep(s) \/ pass'[s].skipped # pass[s].skipped)
                => (last_reset' = last_reset => current_counts' = current_counts)
      ]_vars

\* A pass over two different portals has returned: the fetch of the first
\* raised and that of the second returned postings; the first portal's count
\* is zero and the second's is the number of postings returned.
C34_Witness ==
    /\ Len(filters) = 2 /\ filters[1] # filters[2]
    /\ \E s \in Slots :
        /\ pass[s].pc = "idle" /\ pass[s].failed = {filters[1]}
        /\ Len(pass[s].batches) = 1
        /\ pass[s].batches[1][1] = filters[2] /\ pass[s].batches[1][2] > 0
        /\ current_counts[filters[1]] = 0
        /\ current_counts[filters[2]] = pass[s].batches[1][2]

\* C35: a pending application has no applied_at, an applied one has it set,
\* and a rejected one, which no run ever marked applied, has none.
C35_AppliedAtFollowsStatus ==
    \A a \in AppIds :
        /\ applications[a].status = PENDING => applications[a].applied_at = None
        /\ applications[a].status = APPLIED => applications[a].applied_at = Stamped
        /\ applications[a].status = REJECTED => applications[a].applied_at = None

\* An applied application, a rejected one whose submission failed, both
\* written by their runs.
C35_Witness ==
    /\ Len(applications) = 2
    /\ applications[1].status = APPLIED /\ applications[1].applied_at = Stamped
    /\ run[1].pc = "done"
    /\ applications[2].status = REJECTED /\ applications[2].applied_at = None
    /\ run[2].pc = "done" /\ submit_calls[2] = 1

\* C36: once every create_ai_config call has returned, a user has a chat in
\* the AI service only if a stored AIConfig of that user has an API key, so
\* that a user whose config was replaced by one without a key has none.
C36_ChatOnlyWithStoredKey ==
    (\A k \in CallSlots : cfg_calls[k].pc = "idle") =>
        \A u \in active_chats :
            \E d \in ai_config : d.user_id = u /\ d.gemini_api_key # None

====
